---------------------------- MODULE Spec2Model ----------------------------
(***************************************************************************)
(* A model of the single-shot TCP pair of src/server.c and src/client.c:   *)
(* one server process, NumClients client processes and the byte streams    *)
(* between them.  Every system call is one step of its process; what the   *)
(* kernel and the transport decide (a call failing, how a stream is cut    *)
(* into segments, when a close is seen) is chosen nondeterministically.    *)
(*                                                                         *)
(* Characters are one-character strings; NUL and NL stand for the bytes    *)
(* '\0' and '\n'.  A C string held in a buffer is the bytes before the     *)
(* first NUL.                                                              *)
(***************************************************************************)
EXTENDS Integers, Sequences, FiniteSets, TLC

\* ------------------------------------------------------------- bounds
\* Number of client processes started against the one server.
NumClients == 2
\* The transport may hand over a prefix of the bytes in flight of at most
\* this many bytes, and does so at most MaxSplits times per stream;
\* otherwise it hands over all bytes in flight at once.
MaxSegment == 2
MaxSplits == 1

\* ---------------------------------------------------- program constants
BUFFER_SIZE == 100
BACKLOG == 5
\* char serverIP[29] in the client's main
SERVERIP_SIZE == 29
\* the port test of both parse_arguments: port <= 0 || port > 65535
MAX_PORT == 65535

NUL == "NUL"
NL == "NL"

\* #define RESPONSE "Server acknowledged your message!"
RESPONSE ==
    << "S","e","r","v","e","r"," ",
       "a","c","k","n","o","w","l","e","d","g","e","d"," ",
       "y","o","u","r"," ",
       "m","e","s","s","a","g","e","!" >>

\* exit status of a process that has not exited
RUNNING == 0 - 1

Clients == 1..NumClients

Min(a, b) == IF a < b THEN a ELSE b

\* ------------------------------------------------------------ C strings
\* The number of bytes of buf before the first one in stops; Len(buf)
\* when the array holds none (the scan then leaves the array).
ScanTo(buf, stops) ==
    LET hits == { i \in 1..Len(buf) : buf[i] \in stops }
    IN  IF hits = {} THEN Len(buf)
        ELSE (CHOOSE i \in hits : \A j \in hits : i <= j) - 1

\* strlen: the number of bytes before the first NUL of the C string that
\* starts at buf[1].
strlen(buf) == ScanTo(buf, {NUL})

\* strcspn(buf, "\n"): the length of the initial part of the C string
\* holding no newline.
strcspn_nl(buf) == ScanTo(buf, {NUL, NL})

\* The literal of a C string: its characters and the terminating NUL.
CString(chars) == Append(chars, NUL)

\* ------------------------------------------------- strtol, atoi (libc)
\* A long is 64 bits wide and an int 32; values are kept as four 16-bit
\* limbs, least significant first, so that the conversions wrap and
\* saturate exactly where the C types do.
Limb == 2^16
Half == 2^15
INT_MAX == (Half - 1) * Limb + (Limb - 1)
INT_MIN == (0 - Half) * Limb

Digits == << "0","1","2","3","4","5","6","7","8","9" >>
isdigit(ch) == \E d \in 1..10 : Digits[d] = ch
DigitVal(ch) == (CHOOSE d \in 1..10 : Digits[d] = ch) - 1
isspace(ch) == ch \in {" ", "\t", NL}

\* acc * 10 + d on the magnitude; over records that it left 64 bits.
MulAdd10(acc, d) ==
    LET t1 == acc.l[1] * 10 + d
        t2 == acc.l[2] * 10 + t1 \div Limb
        t3 == acc.l[3] * 10 + t2 \div Limb
        t4 == acc.l[4] * 10 + t3 \div Limb
    IN  [l |-> << t1 % Limb, t2 % Limb, t3 % Limb, t4 % Limb >>,
         over |-> acc.over \/ t4 \div Limb > 0]

RECURSIVE SkipSpace(_, _)
SkipSpace(tok, i) ==
    IF i <= Len(tok) /\ isspace(tok[i]) THEN SkipSpace(tok, i + 1) ELSE i

RECURSIVE ReadDigits(_, _, _)
ReadDigits(tok, i, acc) ==
    IF i <= Len(tok) /\ isdigit(tok[i])
    THEN ReadDigits(tok, i + 1, MulAdd10(acc, DigitVal(tok[i])))
    ELSE acc

\* strtol(tok, NULL, 10): leading white space, an optional sign, then the
\* longest run of digits; whatever follows is ignored, no digits give 0,
\* and a value outside long saturates to LONG_MAX or LONG_MIN.
\* The result's sign and magnitude.
strtol(tok) ==
    LET i   == SkipSpace(tok, 1)
        neg == i <= Len(tok) /\ tok[i] = "-"
        j   == IF i <= Len(tok) /\ tok[i] \in {"-", "+"} THEN i + 1 ELSE i
        acc == ReadDigits(tok, j, [l |-> << 0, 0, 0, 0 >>, over |-> FALSE])
        big == acc.over \/ acc.l[4] >= Half
    IN  IF ~neg /\ big
        THEN [neg |-> FALSE, l |-> << Limb - 1, Limb - 1, Limb - 1, Half - 1 >>]
        ELSE IF neg /\ big
        THEN [neg |-> TRUE, l |-> << 0, 0, 0, Half >>]
        ELSE [neg |-> neg, l |-> acc.l]

\* Whether a long is representable as an int.
FitsInt(v) ==
    /\ v.l[3] = 0 /\ v.l[4] = 0
    /\ \/ v.l[2] < Half
       \/ v.neg /\ v.l[2] = Half /\ v.l[1] = 0

\* The conversion of a long to int as the build defines it: the low 32
\* bits, read as two's complement.
LongToInt(v) ==
    LET low == IF v.l[2] >= Half THEN (v.l[2] - Limb) * Limb + v.l[1]
               ELSE v.l[2] * Limb + v.l[1]
    IN  IF v.neg /\ low # INT_MIN THEN 0 - low ELSE low

\* atoi(tok): (int) strtol(tok, NULL, 10) when the value is representable
\* as an int.  When it is not, the behaviour is undefined: the library may
\* truncate, saturate either way, or yield 0.
atoi(tok) ==
    LET v == strtol(tok)
    IN  IF FitsInt(v) THEN {LongToInt(v)}
        ELSE {LongToInt(v), INT_MAX, INT_MIN, 0}

\* The test both parse_arguments apply to the converted port.
PortRejected(port) == port <= 0 \/ port > MAX_PORT

\* ------------------------------------------------------------ inet_addr
\* An IPv4 address is its four octets.  inet_addr yields INADDR_NONE for
\* text that is no address.
INADDR_NONE == << 255, 255, 255, 255 >>
\* The server binds INADDR_ANY: it is reached at every address of its host.
HostAddrs == { << 127, 0, 0, 1 >> }

\* The parts of a text between the dots.
RECURSIVE SplitDots(_, _, _)
SplitDots(txt, i, part) ==
    IF i > Len(txt) THEN << part >>
    ELSE IF txt[i] = "." THEN << part >> \o SplitDots(txt, i + 1, << >>)
    ELSE SplitDots(txt, i + 1, Append(part, txt[i]))

\* A part is a non-empty run of decimal digits (the octal and hexadecimal
\* forms of inet_addr are not among the inputs of this model).
IsNumber(part) == Len(part) > 0 /\ \A i \in 1..Len(part) : isdigit(part[i])
PartValue(part) == ReadDigits(part, 1, [l |-> << 0, 0, 0, 0 >>, over |-> FALSE])

\* inet_addr(cp) for the forms a.b.c.d, a.b.c, a.b and a: every part but
\* the last is one octet and the last fills the octets that remain.
inet_addr(txt) ==
    LET parts == SplitDots(txt, 1, << >>)
        n     == Len(parts)
        last  == PartValue(parts[n])
        tail  == << last.l[2] \div 256, last.l[2] % 256,
                    last.l[1] \div 256, last.l[1] % 256 >>
        octet(i) == PartValue(parts[i]).l[1]
        small(i) == LET v == PartValue(parts[i])
                    IN  ~v.over /\ v.l[2] = 0 /\ v.l[3] = 0 /\ v.l[4] = 0
                        /\ v.l[1] < 256
    IN  IF /\ n \in 1..4
           /\ \A i \in 1..n : IsNumber(parts[i])
           /\ \A i \in 1..(n - 1) : small(i)
           /\ ~last.over /\ last.l[3] = 0 /\ last.l[4] = 0
           /\ \A i \in 1..(n - 1) : tail[i] = 0
        THEN [i \in 1..4 |-> IF i < n THEN octet(i) ELSE tail[i]]
        ELSE INADDR_NONE

\* -------------------------------------------------------------- inputs
Text5 == << "h", "e", "l", "l", "o" >>
\* An operator's line of n characters: hello, repeated.
Line(n) == [i \in 1..n |-> Text5[((i - 1) % 5) + 1]]

\* What the operator types: chars, then a newline (nl) or the end of input.
LineLens == {0, 1, 5, BUFFER_SIZE - 2, BUFFER_SIZE - 1, BUFFER_SIZE}
Stdins ==
    { [chars |-> Line(n), nl |-> TRUE] : n \in LineLens }
    \cup { [chars |-> Line(n), nl |-> FALSE] : n \in {0, 5} }

\* What an automatic array may hold before its first write: an empty
\* string, a short string, a string with a newline in it, and bytes whose
\* first NUL lies one and two bytes past the array.
Garbage ==
    { << NUL >>,
      << "x", "y", NUL >>,
      << "x", NL, "y", NUL >>,
      [i \in 1..(BUFFER_SIZE + 1) |-> IF i > BUFFER_SIZE THEN NUL ELSE "x"],
      [i \in 1..(BUFFER_SIZE + 2) |-> IF i > BUFFER_SIZE + 1 THEN NUL ELSE "x"] }

Tok80 == << "8", "0" >>
Tok65535 == << "6", "5", "5", "3", "5" >>
PortTokens ==
    { Tok80, Tok65535,
      << >>,
      << "0" >>,
      << "-", "1" >>,
      << "6", "5", "5", "3", "6" >>,
      << "a", "b", "c" >>,
      << "8", "0", "a", "b", "c" >>,
      << "4", "2", "9", "4", "9", "6", "7", "3", "7", "6" >>,
      << "-", "4", "2", "9", "4", "9", "6", "7", "2", "1", "6" >>,
      [i \in 1..20 |-> "9"] }

Loopback == << "1", "2", "7", ".", "0", ".", "0", ".", "1" >>
\* 127.0.0.0...01, n characters long: the loopback address again, its last
\* part written with leading zeros (a part of zeros and a final 1 reads as
\* 1 in octal as in decimal).
LongLoopback(n) ==
    [i \in 1..n |-> IF i <= 8 THEN Loopback[i] ELSE IF i < n THEN "0" ELSE "1"]
\* The longest address text that fits serverIP with its terminator, and
\* the shortest that does not.
AddrFits == LongLoopback(SERVERIP_SIZE - 1)
AddrOver == LongLoopback(SERVERIP_SIZE)
AddrTokens ==
    { Loopback,
      << "1", "2", "7", ".", "1" >>,
      << "l", "o", "c", "a", "l", "h", "o", "s", "t" >>,
      << "1", "0", ".", "0", ".", "0", ".", "9" >>,
      AddrFits, AddrOver }

\* The conversions of the command-line texts above, tabulated once:
\* atoi(argv[1]) of the server, (int) strtol(argv[2], NULL, 10) of the
\* client, and inet_addr(serverIP).
ServerPortOf == [t \in PortTokens |-> atoi(t)]
ClientPortOf == [t \in PortTokens |-> LongToInt(strtol(t))]
AddressOf == [a \in AddrTokens |-> inet_addr(a)]

\* An fgets that takes the whole line whatever the size of the array.
fgets_WholeLine(input, size) ==
    LET avail == input.chars \o (IF input.nl THEN << NL >> ELSE << >>)
    IN  IF avail = << >> THEN << >> ELSE Append(avail, NUL)

\* fgets(buffer, size, stdin) on the operator's input: NULL (as << >>)
\* when the input ends before any character, else the characters up to and
\* including the first newline, size - 1 at most, and a NUL after them.
fgets(input, size) ==
    LET avail == input.chars \o (IF input.nl THEN << NL >> ELSE << >>)
        stop  == IF \E i \in 1..Len(avail) : avail[i] = NL
                 THEN CHOOSE i \in 1..Len(avail) :
                        /\ avail[i] = NL
                        /\ \A j \in 1..(i - 1) : avail[j] # NL
                 ELSE Len(avail)
    IN  IF avail = << >> THEN << >>
        ELSE Append(SubSeq(avail, 1, Min(size - 1, stop)), NUL)

\* What fgets(buffer, BUFFER_SIZE, stdin) reads of each input, tabulated.
LineOf == [input \in Stdins |-> fgets(input, BUFFER_SIZE)]

\* --------------------------------------------------------------- state
VARIABLES
    server,     \* the server process: its variables, descriptors and traces
    client,     \* client[c]: the same for client process c
    link,       \* link[c]: the connection of client c and its two streams
    listening,  \* the server's socket is in the listening state
    backlog     \* connections established and not yet accepted, in order

vars == << server, client, link, listening, backlog >>

\* A descriptor variable that holds no descriptor.
NOFD == 0 - 1
StdFds == {0, 1, 2}
\* socket() and accept() return the lowest descriptor not in use.
NewFd(open) ==
    CHOOSE fd \in 0..(Cardinality(open \cup StdFds)) :
        /\ fd \notin open \cup StdFds
        /\ \A g \in 0..(fd - 1) : g \in open \cup StdFds

\* One system call as a process issued it: the descriptor it named (NOFD
\* for socket()) and what it returned.
Call(name, fd, ret) == [call |-> name, fd |-> fd, ret |-> ret]

Zeros(n) == [i \in 1..n |-> NUL]
\* buf with byte b stored at C index i; a store past the array is kept, so
\* that the array is seen to have grown.
Store(array, index, b) ==
    CHOOSE stored \in
        { [j \in 1..(IF i + 1 > Len(buf) THEN i + 1 ELSE Len(buf)) |->
              IF j = i + 1 THEN b ELSE IF j <= Len(buf) THEN buf[j] ELSE "?"]
          : buf \in { array }, i \in { index } } : TRUE

NoLink ==
    [state |-> "none",
     up |-> << >>, up_rq |-> << >>, up_end |-> "open", up_splits |-> 0,
     dn |-> << >>, dn_rq |-> << >>, dn_end |-> "open", dn_splits |-> 0]

InitServer(argv) ==
    [argv |-> argv, pc |-> "parse_arguments", port |-> 0,
     server_sd |-> NOFD, client_sd |-> NOFD, peer |-> 0, open |-> {},
     buffer |-> << >>, bytes |-> 0, exit |-> RUNNING,
     calls |-> << >>, sent |-> << >>, out |-> << >>]

InitClient(argv, input) ==
    [argv |-> argv, stdin |-> input, pc |-> "parse_arguments",
     serverIP |-> << >>, port |-> 0, sd |-> NOFD, open |-> {},
     buffer |-> << >>, strip_at |-> 0, rbuffer |-> << >>, rc |-> 0,
     exit |-> RUNNING,
     calls |-> << >>, sent |-> << >>, out |-> << >>]

\* The runs started from the given command lines and operator inputs.
InitWith(ServerArgvs, FirstArgvs, OtherArgvs, Inputs) ==
    /\ \E argv \in ServerArgvs : server = InitServer(argv)
    /\ \E a1 \in FirstArgvs, i1 \in Inputs :
       \E rest \in [Clients \ {1} -> OtherArgvs \X Inputs] :
           client = [c \in Clients |->
                        IF c = 1 THEN InitClient(a1, i1)
                        ELSE InitClient(rest[c][1], rest[c][2])]
    /\ link = [c \in Clients |-> NoLink]
    /\ listening = FALSE
    /\ backlog = << >>

\* ---------------------------------------------------------- the server
\* The listening socket is closed: the kernel resets every connection
\* that was established and never accepted.
ResetBacklog(lk, queue) ==
    [c \in Clients |->
        IF \E i \in 1..Len(queue) : queue[i] = c
        THEN [lk[c] EXCEPT !.state = "dead", !.dn_end = "rst_sent",
                           !.up = << >>, !.up_rq = << >>]
        ELSE lk[c]]

\* exit(1) of the server after it closed the descriptors in closed.
ServerExit1(msg, call, closed) ==
    /\ server' = [server EXCEPT
            !.pc = "exited", !.exit = 1,
            !.out = Append(@, msg),
            !.open = @ \ closed,
            !.calls = @ \o << call >> \o
                      (IF closed = {} THEN << >>
                       ELSE << Call("close", server.server_sd, 0) >>)]
    /\ IF server.server_sd \in closed
       THEN /\ link' = ResetBacklog(link, backlog)
            /\ backlog' = << >>
            /\ listening' = FALSE
       ELSE UNCHANGED << link, backlog, listening >>
    /\ UNCHANGED client

\* server.c parse_arguments
ServerParse ==
    /\ server.pc = "parse_arguments"
    /\ IF Len(server.argv) + 1 < 2
       THEN server' = [server EXCEPT !.pc = "exited", !.exit = 1,
                           !.out = Append(@, "usage is: server <portnumber>")]
       ELSE \E port \in ServerPortOf[server.argv[1]] :
              IF PortRejected(port)
              THEN server' = [server EXCEPT !.pc = "exited", !.exit = 1,
                                  !.out = Append(@, "Error: Invalid port number")]
              ELSE server' = [server EXCEPT !.pc = "socket", !.port = port]
    /\ UNCHANGED << client, link, listening, backlog >>

\* create_server_socket, step 1: socket()
ServerSocket ==
    /\ server.pc = "socket"
    /\ \/ LET sd == NewFd(server.open)
          IN  /\ server' = [server EXCEPT
                      !.pc = "setsockopt", !.server_sd = sd,
                      !.open = @ \cup {sd},
                      !.calls = Append(@, Call("socket", NOFD, sd))]
              /\ UNCHANGED << client, link, listening, backlog >>
       \/ ServerExit1("Error: socket() failed", Call("socket", NOFD, 0 - 1), {})

\* create_server_socket: setsockopt(SO_REUSEADDR)
ServerSetsockopt ==
    /\ server.pc = "setsockopt"
    /\ \/ /\ server' = [server EXCEPT !.pc = "bind",
                  !.calls = Append(@, Call("setsockopt", server.server_sd, 0))]
          /\ UNCHANGED << client, link, listening, backlog >>
       \/ ServerExit1("Error: setsockopt() failed",
                      Call("setsockopt", server.server_sd, 0 - 1),
                      {server.server_sd})

\* A create_server_socket that reports a failed bind and goes on to listen.
ServerBind_IgnoreFailure ==
    /\ server.pc = "bind"
    /\ \E ret \in {0, 0 - 1} :
         server' = [server EXCEPT
             !.pc = "listen",
             !.calls = Append(@, Call("bind", server.server_sd, ret)),
             !.out = IF ret < 0 THEN Append(@, "Error: bind() failed") ELSE @]
    /\ UNCHANGED << client, link, listening, backlog >>

\* create_server_socket, step 3: bind()
ServerBind ==
    /\ server.pc = "bind"
    /\ \/ /\ server' = [server EXCEPT !.pc = "listen",
                  !.calls = Append(@, Call("bind", server.server_sd, 0))]
          /\ UNCHANGED << client, link, listening, backlog >>
       \/ ServerExit1("Error: bind() failed",
                      Call("bind", server.server_sd, 0 - 1),
                      {server.server_sd})

\* create_server_socket, step 4: listen(sd, BACKLOG)
ServerListen ==
    /\ server.pc = "listen"
    /\ \/ /\ server' = [server EXCEPT !.pc = "accept",
                  !.calls = Append(@, Call("listen", server.server_sd, 0)),
                  !.out = Append(@, "Server is listening on port")]
          /\ listening' = TRUE
          /\ UNCHANGED << client, link, backlog >>
       \/ ServerExit1("Error: listen() failed",
                      Call("listen", server.server_sd, 0 - 1),
                      {server.server_sd})

\* accept_client: accept() blocks until a connection is established.
ServerAccept ==
    /\ server.pc = "accept"
    /\ \/ /\ backlog # << >>
          /\ LET new_sd == NewFd(server.open)
                 c == Head(backlog)
             IN  /\ server' = [server EXCEPT
                         !.pc = "recv", !.client_sd = new_sd, !.peer = c,
                         !.open = @ \cup {new_sd},
                         !.calls = Append(@, Call("accept", server.server_sd, new_sd)),
                         !.out = Append(@, "Client connected successfully")]
                 /\ link' = [link EXCEPT ![c].state = "accepted"]
          /\ backlog' = Tail(backlog)
          /\ UNCHANGED << client, listening >>
       \/ ServerExit1("Error: accept() failed",
                      Call("accept", server.server_sd, 0 - 1),
                      {server.server_sd})

\* ----------------------------------------------------- the byte streams
\* recv(fd, buf, cap, 0) on a stream whose delivered and unread bytes are
\* rq: the call may fail; it returns what has arrived, cap bytes at most;
\* with nothing unread it returns 0 once the peer's close has been seen,
\* fails on a reset connection, and blocks (no outcome) otherwise.
recv(rq, end, cap) ==
    { [rc |-> 0 - 1, data |-> << >>] }
    \cup (IF rq # << >>
          THEN { [rc |-> Min(Len(rq), cap), data |-> SubSeq(rq, 1, Min(Len(rq), cap))] }
          ELSE IF end = "fin" THEN { [rc |-> 0, data |-> << >>] }
          ELSE {})

\* How many of the bytes in flight the transport hands over next.
SegmentSizes(flight, splits) ==
    { Len(flight) }
    \cup (IF splits < MaxSplits THEN 1..Min(MaxSegment, Len(flight) - 1) ELSE {})

\* receive_message of the server on the outcome r of its recv: the buffer
\* it leaves and the value it returns.
ReceiveMessage(r, buf_size) ==
    LET filled == [i \in 1..buf_size |->
                      IF i <= Len(r.data) THEN r.data[i] ELSE NUL]
    IN  IF r.rc < 0
        THEN [buffer |-> filled, ret |-> 0 - 1, out |-> << "Error: recv() failed" >>]
        ELSE IF r.rc = 0
        THEN [buffer |-> filled, ret |-> 0,
              out |-> << "Client disconnected before sending data." >>]
        ELSE [buffer |-> Store(filled, r.rc, NUL), ret |-> r.rc,
              out |-> << "Received bytes", "Message:" >>]

\* A main that responds whenever receive_message did not fail.
ShouldRespond_AlsoOnZero(bytes) == bytes >= 0

\* main of the server: if (bytes > 0) send_response(client_sd);
ShouldRespond(bytes) == bytes > 0

\* A send_response that passes strlen(response) bytes: no terminator.
ResponsePayload_NoTerminator == RESPONSE

\* What send_response passes to send: response, strlen(response) + 1 bytes.
ResponsePayload ==
    LET response == CString(RESPONSE)
    IN  SubSeq(response, 1, strlen(response) + 1)

\* A cleanup that forgets the listening socket.
CleanupCloses_ClientOnly(server_sd, client_sd) ==
    IF client_sd >= 0 THEN << client_sd >> ELSE << >>

\* The descriptors cleanup(server_sd, client_sd) closes, in order.
CleanupCloses(server_sd, client_sd) ==
    (IF client_sd >= 0 THEN << client_sd >> ELSE << >>)
    \o (IF server_sd >= 0 THEN << server_sd >> ELSE << >>)

\* The status main of the server returns.
ServerMainStatus == 0

\* main, receive_message: one recv of at most BUFFER_SIZE - 1 bytes.
ServerRecv ==
    /\ server.pc = "recv"
    /\ \E r \in recv(link[server.peer].up_rq, link[server.peer].up_end,
                     BUFFER_SIZE - 1) :
         LET m == ReceiveMessage(r, BUFFER_SIZE)
         IN  /\ server' = [server EXCEPT
                     !.pc = IF ShouldRespond(m.ret) THEN "send" ELSE "cleanup",
                     !.buffer = m.buffer, !.bytes = m.ret,
                     !.calls = Append(@, Call("recv", server.client_sd, r.rc)),
                     !.out = @ \o m.out]
             /\ link' = [link EXCEPT ![server.peer].up_rq =
                             SubSeq(@, Len(r.data) + 1, Len(@))]
    /\ UNCHANGED << client, listening, backlog >>

\* main, send_response: one send of the fixed response.
ServerSend ==
    /\ server.pc = "send"
    /\ LET c == server.peer
       IN  \/ /\ server' = [server EXCEPT
                      !.pc = "cleanup",
                      !.sent = Append(@, ResponsePayload),
                      !.calls = Append(@, Call("send", server.client_sd,
                                               Len(ResponsePayload))),
                      !.out = Append(@, "Response sent:")]
              /\ link' = IF client[c].sd \in client[c].open
                         THEN [link EXCEPT ![c].dn = @ \o ResponsePayload]
                         ELSE link
           \/ /\ server' = [server EXCEPT
                      !.pc = "cleanup",
                      !.sent = Append(@, ResponsePayload),
                      !.calls = Append(@, Call("send", server.client_sd, 0 - 1)),
                      !.out = Append(@, "Error: send() failed")]
              /\ UNCHANGED link
    /\ UNCHANGED << client, listening, backlog >>

\* A main that goes back to accept after an exchange instead of ending.
ServerCleanup_Loop ==
    /\ server.pc = "cleanup"
    /\ server' = [server EXCEPT !.pc = "accept"]
    /\ UNCHANGED << client, link, listening, backlog >>

\* main: cleanup(server_sd, client_sd); return 0;
ServerCleanup ==
    /\ server.pc = "cleanup"
    /\ LET closes == CleanupCloses(server.server_sd, server.client_sd)
           closed == { closes[i] : i \in 1..Len(closes) }
           c == server.peer
           afterPeer ==
               IF server.client_sd \in closed
               THEN [link EXCEPT
                       ![c].state = "dead",
                       ![c].dn_end = IF link[c].up_rq # << >> \/ link[c].up # << >>
                                     THEN "rst_sent" ELSE "fin_sent",
                       ![c].up = << >>, ![c].up_rq = << >>]
               ELSE link
       IN  /\ server' = [server EXCEPT
                   !.pc = "exited", !.exit = ServerMainStatus,
                   !.open = @ \ closed,
                   !.calls = @ \o [i \in 1..Len(closes) |-> Call("close", closes[i], 0)],
                   !.out = Append(@, "Server shut down. All sockets closed.")]
           /\ IF server.server_sd \in closed
              THEN /\ link' = ResetBacklog(afterPeer, backlog)
                   /\ backlog' = << >>
                   /\ listening' = FALSE
              ELSE /\ link' = afterPeer
                   /\ UNCHANGED << backlog, listening >>
    /\ UNCHANGED client

\* ---------------------------------------------------------- the clients
\* exit(1) of client c after it closed the descriptors in closed.
ClientExit1(c, msg, calls, closed) ==
    /\ client' = [client EXCEPT
            ![c].pc = "exited", ![c].exit = 1,
            ![c].out = Append(@, msg),
            ![c].open = @ \ closed,
            ![c].calls = @ \o calls]
    /\ UNCHANGED << server, link, listening, backlog >>

\* client.c parse_arguments
ClientParse(c) ==
    /\ client[c].pc = "parse_arguments"
    /\ IF Len(client[c].argv) + 1 < 3
       THEN client' = [client EXCEPT ![c].pc = "exited", ![c].exit = 1,
                           ![c].out = Append(@, "usage is: client <ipaddr> <portnumber>")]
       ELSE LET port == ClientPortOf[client[c].argv[2]]
            IN  IF PortRejected(port)
                THEN client' = [client EXCEPT ![c].pc = "exited", ![c].exit = 1,
                                    ![c].serverIP = CString(client[c].argv[1]),
                                    ![c].port = port,
                                    ![c].out = Append(@, "Error: Invalid port number")]
                ELSE client' = [client EXCEPT ![c].pc = "socket",
                                    ![c].serverIP = CString(client[c].argv[1]),
                                    ![c].port = port]
    /\ UNCHANGED << server, link, listening, backlog >>

\* create_client_socket, step 1: socket()
ClientSocket(c) ==
    /\ client[c].pc = "socket"
    /\ \/ LET sd == NewFd(client[c].open)
          IN  /\ client' = [client EXCEPT
                      ![c].pc = "connect", ![c].sd = sd,
                      ![c].open = @ \cup {sd},
                      ![c].calls = Append(@, Call("socket", NOFD, sd))]
              /\ UNCHANGED << server, link, listening, backlog >>
       \/ ClientExit1(c, "Error: socket() failed",
                      << Call("socket", NOFD, 0 - 1) >>, {})

\* The connection attempt reaches a listening socket: the server's host
\* has the address, the server listens on the port and its queue of
\* established connections has room.
Reaches(addr, port) ==
    /\ listening
    /\ addr \in HostAddrs
    /\ port = server.port
    /\ Len(backlog) <= BACKLOG

\* A create_client_socket that reports a failed connect and returns the
\* socket all the same.
ClientConnect_IgnoreFailure(c) ==
    /\ client[c].pc = "connect"
    /\ client' = [client EXCEPT
            ![c].pc = "fgets",
            ![c].calls = Append(@, Call("connect", client[c].sd, 0 - 1)),
            ![c].out = Append(@, "Error: connect() failed")]
    /\ UNCHANGED << server, link, listening, backlog >>

\* create_client_socket, steps 2 and 3: inet_addr() and connect()
ClientConnect(c) ==
    /\ client[c].pc = "connect"
    /\ LET ip == SubSeq(client[c].serverIP, 1, strlen(client[c].serverIP))
       IN  \/ /\ Reaches(AddressOf[ip], client[c].port)
              /\ client' = [client EXCEPT
                      ![c].pc = "fgets",
                      ![c].calls = Append(@, Call("connect", client[c].sd, 0)),
                      ![c].out = Append(@, "Connected to server at")]
              /\ link' = [link EXCEPT ![c].state = "queued"]
              /\ backlog' = Append(backlog, c)
              /\ UNCHANGED << server, listening >>
           \/ ClientExit1(c, "Error: connect() failed",
                          << Call("connect", client[c].sd, 0 - 1),
                             Call("close", client[c].sd, 0) >>,
                          {client[c].sd})

\* send_message: buffer[strcspn(buffer, "\n")] = '\0';
StripNewline(buf) == Store(buf, strcspn_nl(buf), NUL)

\* What send_message passes to send: buffer, strlen(buffer) + 1 bytes.
MessagePayload(buf) == SubSeq(buf, 1, strlen(buf) + 1)

\* A main that waits for the response whatever send_message returned.
ShouldReceive_Always(sent) == TRUE

\* A main that waits for the response when send_message failed.
ShouldReceive_OnFailure(sent) == sent # 0

\* main of the client: if (send_message(sd) == 0) receive_response(sd);
ShouldReceive(sent) == sent = 0

\* The status main of the client returns.
ClientMainStatus == 0

\* The status of a process ended by abort(), as its parent sees it.
ABORTED == 134

\* How main's return 0 ends the process.  strcpy(serverIP, argv[1]) has
\* no bound: a text of SERVERIP_SIZE characters or more is written past
\* the array into main's frame, which is undefined; the build either
\* returns as if nothing happened or finds the frame overwritten on
\* return and aborts.
MainReturns(serverIP) ==
    IF Len(serverIP) > SERVERIP_SIZE THEN { ClientMainStatus, ABORTED }
    ELSE { ClientMainStatus }

\* send_message, first part: the prompt, fgets and the newline's removal.
\* When fgets reads nothing the array keeps what it held, which nothing
\* has set.
ClientFgets(c) ==
    /\ client[c].pc = "fgets"
    /\ LET line == LineOf[client[c].stdin]
       IN  \E mem \in (IF line = << >> THEN Garbage ELSE { line }) :
             client' = [client EXCEPT
                 ![c].pc = "send",
                 ![c].buffer = StripNewline(mem),
                 ![c].strip_at = strcspn_nl(mem),
                 ![c].out = @ \o << "Enter a message to send: ",
                                    "You are sending", "The length of the string is" >>]
    /\ UNCHANGED << server, link, listening, backlog >>

\* send_message, second part: one send of the string and its terminator.
ClientSend(c) ==
    /\ client[c].pc = "send"
    /\ LET payload == MessagePayload(client[c].buffer)
       IN  \/ /\ link[c].dn_end # "rst"
              /\ client' = [client EXCEPT
                      ![c].pc = IF ShouldReceive(0) THEN "recv" ELSE "cleanup",
                      ![c].sent = Append(@, payload),
                      ![c].calls = Append(@, Call("send", client[c].sd, Len(payload))),
                      ![c].out = Append(@, "Sent bytes to the server")]
              /\ link' = IF link[c].state \in {"queued", "accepted"}
                         THEN [link EXCEPT ![c].up = @ \o payload]
                         ELSE link
           \/ /\ client' = [client EXCEPT
                      ![c].pc = IF ShouldReceive(0 - 1) THEN "recv" ELSE "cleanup",
                      ![c].sent = Append(@, payload),
                      ![c].calls = Append(@, Call("send", client[c].sd, 0 - 1)),
                      ![c].out = Append(@, "Error: send() failed")]
              /\ UNCHANGED link
    /\ UNCHANGED << server, listening, backlog >>

\* A receive_response without the rc == 0 test: an empty read is printed
\* as a response.
ReceiveResponse_NoZeroTest(r, buf_size) ==
    LET filled == [i \in 1..buf_size |->
                      IF i <= Len(r.data) THEN r.data[i] ELSE NUL]
    IN  IF r.rc < 0
        THEN [buffer |-> filled, ret |-> 0 - 1, out |-> "Error: recv() failed"]
        ELSE [buffer |-> Store(filled, r.rc, NUL), ret |-> 0,
              out |-> "Server response:"]

\* receive_response on the outcome r of its recv: the buffer it leaves,
\* what it prints and the value it returns.
ReceiveResponse(r, buf_size) ==
    LET filled == [i \in 1..buf_size |->
                      IF i <= Len(r.data) THEN r.data[i] ELSE NUL]
    IN  IF r.rc < 0
        THEN [buffer |-> filled, ret |-> 0 - 1, out |-> "Error: recv() failed"]
        ELSE IF r.rc = 0
        THEN [buffer |-> filled, ret |-> 0 - 1,
              out |-> "Server closed the connection without responding."]
        ELSE [buffer |-> Store(filled, r.rc, NUL), ret |-> 0,
              out |-> "Server response:"]

\* main, receive_response: one recv of at most BUFFER_SIZE - 1 bytes.
ClientRecv(c) ==
    /\ client[c].pc = "recv"
    /\ \E r \in recv(link[c].dn_rq, link[c].dn_end, BUFFER_SIZE - 1) :
         LET m == ReceiveResponse(r, BUFFER_SIZE)
         IN  /\ client' = [client EXCEPT
                     ![c].pc = "cleanup",
                     ![c].rbuffer = m.buffer, ![c].rc = r.rc,
                     ![c].calls = Append(@, Call("recv", client[c].sd, r.rc)),
                     ![c].out = Append(@, m.out)]
             /\ link' = [link EXCEPT ![c].dn_rq = SubSeq(@, Len(r.data) + 1, Len(@))]
    /\ UNCHANGED << server, listening, backlog >>

\* A cleanup that closes the socket and closes it again.
ClientCleanupCloses_Twice(sd) == IF sd >= 0 THEN << sd, sd >> ELSE << >>

\* The descriptors cleanup(sd) of the client closes.
ClientCleanupCloses(sd) == IF sd >= 0 THEN << sd >> ELSE << >>

\* main: cleanup(sd); return 0;
ClientCleanup(c) ==
    /\ client[c].pc = "cleanup"
    /\ LET closes == ClientCleanupCloses(client[c].sd)
           closed == { closes[i] : i \in 1..Len(closes) }
       IN  /\ \E status \in MainReturns(client[c].serverIP) :
                 client' = [client EXCEPT
                   ![c].pc = "exited", ![c].exit = status,
                   ![c].open = @ \ closed,
                   ![c].calls = @ \o [i \in 1..Len(closes) |-> Call("close", closes[i], 0)],
                   ![c].out = Append(@, "Connection closed.")]
           /\ link' = IF client[c].sd \in closed
                      THEN [link EXCEPT
                              ![c].up_end = IF link[c].state \in {"queued", "accepted"}
                                            THEN "fin_sent" ELSE @,
                              ![c].dn = << >>, ![c].dn_rq = << >>]
                      ELSE link
    /\ UNCHANGED << server, listening, backlog >>

\* -------------------------------------------------------- the transport
\* The next segment of client c's bytes reaches the server's socket.
DeliverUp(c) ==
    /\ link[c].up # << >>
    /\ \E k \in SegmentSizes(link[c].up, link[c].up_splits) :
         link' = [link EXCEPT
             ![c].up = SubSeq(@, k + 1, Len(@)),
             ![c].up_rq = @ \o SubSeq(link[c].up, 1, k),
             ![c].up_splits = IF k < Len(link[c].up) THEN @ + 1 ELSE @]
    /\ UNCHANGED << server, client, listening, backlog >>

\* The next segment of the server's bytes reaches client c's socket.
DeliverDn(c) ==
    /\ link[c].dn # << >>
    /\ \E k \in SegmentSizes(link[c].dn, link[c].dn_splits) :
         link' = [link EXCEPT
             ![c].dn = SubSeq(@, k + 1, Len(@)),
             ![c].dn_rq = @ \o SubSeq(link[c].dn, 1, k),
             ![c].dn_splits = IF k < Len(link[c].dn) THEN @ + 1 ELSE @]
    /\ UNCHANGED << server, client, listening, backlog >>

\* Client c's close reaches the server's end of the connection, while
\* there is one, after the bytes sent before it.
EndUp(c) ==
    /\ link[c].state \in {"queued", "accepted"}
    /\ link[c].up_end = "fin_sent"
    /\ link[c].up = << >>
    /\ link' = [link EXCEPT ![c].up_end = "fin"]
    /\ UNCHANGED << server, client, listening, backlog >>

\* The server's close, or its reset, reaches client c's socket, while it
\* is open, after the bytes sent before it.
EndDn(c) ==
    /\ client[c].sd \in client[c].open
    /\ link[c].dn_end \in {"fin_sent", "rst_sent"}
    /\ link[c].dn = << >>
    /\ link' = [link EXCEPT
           ![c].dn_end = IF @ = "fin_sent" THEN "fin" ELSE "rst"]
    /\ UNCHANGED << server, client, listening, backlog >>

\* ------------------------------------------------------- specifications
ServerStep ==
    \/ ServerParse
    \/ ServerSocket
    \/ ServerSetsockopt
    \/ ServerBind
    \/ ServerListen
    \/ ServerAccept
    \/ ServerRecv
    \/ ServerSend
    \/ ServerCleanup

ClientStep(c) ==
    \/ ClientParse(c)
    \/ ClientSocket(c)
    \/ ClientConnect(c)
    \/ ClientFgets(c)
    \/ ClientSend(c)
    \/ ClientRecv(c)
    \/ ClientCleanup(c)

Transport(c) ==
    \/ DeliverUp(c)
    \/ DeliverDn(c)
    \/ EndUp(c)
    \/ EndDn(c)

Next ==
    \/ ServerStep
    \/ \E c \in Clients : ClientStep(c)
    \/ \E c \in Clients : Transport(c)

\* Command lines of the exchange: a good one, and one the program refuses.
ServerArgvs == { << Tok80 >>, << >> }
ClientArgvs == { << Loopback, Tok80 >>, << Loopback >> }

\* The operator of the first client types any of the inputs; the others
\* type hello and a newline.
Hello == { [chars |-> Text5, nl |-> TRUE] }

Init ==
    \/ InitWith(ServerArgvs, ClientArgvs, ClientArgvs, Hello)
    \/ InitWith({ << Tok80 >> }, { << Loopback, Tok80 >> }, { << >> }, Stdins)

Spec == Init /\ [][Next]_vars

\* Command lines of every kind: each port text with a good address, each
\* address text with a good port, and too few arguments.
InitArgs ==
    InitWith({ << t >> : t \in PortTokens } \cup { << >> },
             { << Loopback, t >> : t \in PortTokens }
                 \cup { << a, Tok80 >> : a \in AddrTokens }
                 \cup { << Loopback >> },
             { << >> }, Hello)

SpecArgs == InitArgs /\ [][Next]_vars

\* The server waits in a call that cannot return yet: accept with no
\* connection established, recv with nothing arrived and no close seen.
ServerBlocked ==
    \/ server.pc = "accept" /\ backlog = << >>
    \/ /\ server.pc = "recv"
       /\ link[server.peer].up_rq = << >>
       /\ link[server.peer].up_end # "fin"

\* Client c waits in a recv that cannot return yet.
ClientBlocked(c) ==
    /\ client[c].pc = "recv"
    /\ link[c].dn_rq = << >>
    /\ link[c].dn_end \notin {"fin", "rst"}

\* A process whose next call can return takes its next step, the
\* operator's line arrives, and the transport hands over what was sent and
\* closed.  That a waiting call fails is possible and never required.
Fairness ==
    /\ WF_vars(~ServerBlocked /\ ServerStep)
    /\ \A c \in Clients : WF_vars(~ClientBlocked(c) /\ ClientStep(c))
    /\ \A c \in Clients : WF_vars(Transport(c))

\* Runs in which the server and the first client are started well: with
\* or without the other clients, and with every input of the operator.
InitLive ==
    \/ InitWith({ << Tok80 >> }, { << Loopback, Tok80 >> },
                { << Loopback, Tok80 >> }, Hello)
    \/ InitWith({ << Tok80 >> }, { << Loopback, Tok80 >> }, { << >> }, Stdins)

SpecLive == InitLive /\ [][Next]_vars /\ Fairness

\* ---------------------------------------------------------- the claims
Exited(p) == p.exit # RUNNING
Failed(calls) == \E i \in DOMAIN calls : calls[i].ret < 0
Issued(calls, name) == { i \in DOMAIN calls : calls[i].call = name }
Results(calls, name) == { calls[i].ret : i \in Issued(calls, name) }
Printed(out, text) == \E i \in DOMAIN out : out[i] = text

\* C1: when a process has exited, on any path, every descriptor it opened
\* or accepted has been closed.
C1_NoDescriptorLeft ==
    /\ Exited(server) => server.open = {}
    /\ \A c \in Clients : Exited(client[c]) => client[c].open = {}

\* C1 witness: the server ended after an accept and a client after a
\* connect, and a setup failure was survived by no descriptor either.
C1_Witness ==
    /\ Exited(server) /\ server.client_sd >= 0 /\ server.server_sd >= 0
    /\ server.open = {}
    /\ \E c \in Clients :
         /\ Exited(client[c]) /\ client[c].sd >= 0
         /\ 0 \in Results(client[c].calls, "connect")
         /\ client[c].open = {}

\* C2 as claimed: a client that has exited has status 1 whenever its
\* arguments were refused or one of its socket(), connect(), send() or
\* recv() failed, and status 0 only when none of these failed.
C2_ClientStatusAsClaimed ==
    \A c \in Clients :
        Exited(client[c]) =>
            /\ (client[c].calls = << >> \/ Failed(client[c].calls))
                    => client[c].exit = 1
            /\ client[c].exit = 0 => ~Failed(client[c].calls)

\* C3 as claimed: a server that has exited has status 1 whenever one of
\* its system calls failed; status 0 means that all of them succeeded.
C3_ServerStatusAsClaimed ==
    Exited(server) =>
        /\ Failed(server.calls) => server.exit = 1
        /\ server.exit = 0 => ~Failed(server.calls)

\* The value of a run of at most five decimal digits.
RECURSIVE Decimal(_)
Decimal(ds) ==
    IF ds = << >> THEN 0
    ELSE Decimal(SubSeq(ds, 1, Len(ds) - 1)) * 10 + DigitVal(ds[Len(ds)])

\* The whole text denotes an integer in [1, 65535].
DenotesPort(tok) ==
    /\ IsNumber(tok)
    /\ Len(tok) <= 5
    /\ Decimal(tok) \in 1..MAX_PORT

\* C4 as claimed: a process goes past its argument check only when the
\* whole port text denotes an integer in [1, 65535]; with any other text
\* it exits with status 1 and has made no system call.
C4_PortAsClaimed ==
    /\ (Len(server.argv) >= 1 /\ ~DenotesPort(server.argv[1]))
          => /\ server.pc \in {"parse_arguments", "exited"}
             /\ server.calls = << >>
             /\ Exited(server) => server.exit = 1
    /\ \A c \in Clients :
          (Len(client[c].argv) >= 2 /\ ~DenotesPort(client[c].argv[2]))
          => /\ client[c].pc \in {"parse_arguments", "exited"}
             /\ client[c].calls = << >>
             /\ Exited(client[c]) => client[c].exit = 1

\* The operator of client c typed a line of at most BUFFER_SIZE - 2
\* characters and a newline.
TypedShortLine(c) ==
    client[c].stdin.nl /\ Len(client[c].stdin.chars) <= BUFFER_SIZE - 2

\* C5 as claimed: client c typed a line of L <= 98 characters and no call
\* of either process has failed; then after the server's receive from c
\* the server holds the L characters and a NUL, received as L + 1 bytes,
\* and after c's receive c holds the 33 characters of the response and a
\* NUL.
C5_RoundTripAsClaimed ==
    \A c \in Clients :
        (TypedShortLine(c) /\ ~Failed(server.calls) /\ ~Failed(client[c].calls))
        => LET msg == CString(client[c].stdin.chars)
               ack == CString(RESPONSE)
           IN  /\ (server.peer = c /\ Issued(server.calls, "recv") # {})
                     => /\ server.bytes = Len(msg)
                        /\ SubSeq(server.buffer, 1, Len(msg)) = msg
               /\ Issued(client[c].calls, "recv") # {}
                     => /\ client[c].rc = Len(ack)
                        /\ SubSeq(client[c].rbuffer, 1, Len(ack)) = ack

\* C6: in a run in which the server's receive returned zero bytes the
\* server never calls send, and it ends with both descriptors closed and
\* status 0.
C6_ZeroBytesNoSend ==
    0 \in Results(server.calls, "recv") =>
        /\ Issued(server.calls, "send") = {}
        /\ server.sent = << >>
        /\ server.pc \in {"cleanup", "exited"}
        /\ Exited(server) =>
              /\ server.exit = 0
              /\ server.open = {}
              /\ { server.calls[i].fd : i \in Issued(server.calls, "close") }
                    = { server.server_sd, server.client_sd }

\* C6 witness: the server received zero bytes and has exited.
C6_Witness ==
    /\ 0 \in Results(server.calls, "recv")
    /\ Exited(server)

\* C7: once the server is done (it closes or has closed), a receive of at
\* least one byte was followed by exactly one send, of the 33 characters
\* of the response and a NUL, on the accepted connection and before its
\* close; a receive that returned zero or failed was followed by no send.
C7_OneFixedResponse ==
    server.pc \in {"cleanup", "exited"} /\ Issued(server.calls, "recv") # {}
    => IF \E n \in Results(server.calls, "recv") : n >= 1
       THEN /\ Cardinality(Issued(server.calls, "send")) = 1
            /\ server.sent = << CString(RESPONSE) >>
            /\ Len(server.sent[1]) = 34
            /\ \A i \in Issued(server.calls, "send") :
                  /\ server.calls[i].fd = server.client_sd
                  /\ \A j \in Issued(server.calls, "close") : i < j
       ELSE /\ Issued(server.calls, "send") = {}
            /\ server.sent = << >>

\* C7 witness: the server received a whole line that is not the response,
\* answered and exited.
C7_Witness ==
    /\ Exited(server)
    /\ Results(server.calls, "recv") = { Len(Text5) + 1 }
    /\ Results(server.calls, "send") = { 34 }

\* C8: a client whose receive returned zero bytes after its send reports
\* that the server closed without responding, sends and receives no more,
\* can always go on to close its socket, and ends with the socket closed
\* and status 0.
C8_ClientOnSilentClose ==
    \A c \in Clients :
        0 \in Results(client[c].calls, "recv") =>
            /\ Printed(client[c].out, "Server closed the connection without responding.")
            /\ Cardinality(Issued(client[c].calls, "send")) = 1
            /\ Cardinality(Issued(client[c].calls, "recv")) = 1
            /\ client[c].pc \in {"cleanup", "exited"}
            /\ client[c].pc = "cleanup" => ENABLED ClientCleanup(c)
            /\ Exited(client[c]) =>
                  /\ client[c].exit = 0
                  /\ client[c].open = {}
                  /\ client[c].calls[Len(client[c].calls)]
                        = Call("close", client[c].sd, 0)

\* C8 witness: a client sent its line, read zero bytes and has exited.
C8_Witness ==
    \E c \in Clients :
        /\ Exited(client[c])
        /\ 0 \in Results(client[c].calls, "recv")
        /\ \E n \in Results(client[c].calls, "send") : n > 0

\* The clients whose connect succeeded.
Connected == { c \in Clients : 0 \in Results(client[c].calls, "connect") }
\* The clients that have read bytes of a response.
Answered == { c \in Clients : \E n \in Results(client[c].calls, "recv") : n > 0 }

\* C9: the server calls accept at most once; only the client it accepted
\* is ever sent or reads a response, so at most one client does; and once
\* the server has closed its listening socket every other connected
\* client's connection has been reset, with no byte for it on the way.
C9_OneConnection ==
    /\ Cardinality(Issued(server.calls, "accept")) <= 1
    /\ Cardinality(Answered) <= 1
    /\ \A c \in Connected :
          c # server.peer =>
              /\ c \notin Answered
              /\ link[c].dn = << >> /\ link[c].dn_rq = << >>
              /\ Exited(server) =>
                    /\ link[c].state = "dead"
                    /\ link[c].dn_end \in {"rst_sent", "rst"}

\* C9 witness: two clients were connected; the server answered one and
\* has exited, and the other ended with a failed receive.
C9_Witness ==
    /\ Exited(server)
    /\ \E c, d \in Connected :
          /\ c # d
          /\ c \in Answered
          /\ Exited(client[d])
          /\ Results(client[d].calls, "recv") = { 0 - 1 }
          /\ \E n \in Results(client[d].calls, "send") : n > 0

\* C10: under Fairness, once a client is connected to the listening
\* server, both that client and the server exit.
C10_BothExit ==
    \A c \in Clients :
        (c \in Connected) ~> (Exited(server) /\ Exited(client[c]))

\* C10 witness: a connected client and the server have both exited after
\* an exchange in which no call failed.
C10_Witness ==
    \E c \in Connected :
        /\ Exited(server) /\ Exited(client[c])
        /\ ~Failed(server.calls) /\ ~Failed(client[c].calls)
        /\ c \in Answered

\* Every payload the server and the clients have passed to send.
Payloads ==
    { server.sent[i] : i \in DOMAIN server.sent }
    \cup UNION { { client[c].sent[i] : i \in DOMAIN client[c].sent } : c \in Clients }

\* C11 as claimed: every payload passed to send is at most BUFFER_SIZE
\* bytes long, terminator included, and ends with a NUL, whatever the
\* client read of the operator's input: a short line, an empty line, a
\* line longer than the buffer, or the end of the input and no line.
C11_PayloadAsClaimed ==
    \A p \in Payloads :
        /\ Len(p) <= BUFFER_SIZE
        /\ p[Len(p)] = NUL

\* C18 as claimed: the bytes parse_arguments copies into serverIP, the
\* characters of the address argument and the terminator, never exceed
\* the SERVERIP_SIZE bytes of the array; a longer argument is refused or
\* cut before the copy.
C18_AddressFitsAsClaimed ==
    \A c \in Clients :
        /\ Len(client[c].serverIP) <= SERVERIP_SIZE
        /\ (Len(client[c].argv) >= 2 /\ Len(client[c].argv[1]) + 1 > SERVERIP_SIZE)
              => client[c].pc \in {"parse_arguments", "exited"}

\* The address argument of client c is no address to inet_addr.
Unresolved(c) ==
    /\ Len(client[c].argv) >= 2
    /\ AddressOf[client[c].argv[1]] = INADDR_NONE

\* C12: a client whose address argument cannot be resolved never gets past
\* connect: it passes nothing to send, puts no byte on the way, and when it
\* has exited its status is not 0; and every client, whatever happens,
\* calls connect at most once.
C12_UnresolvedIsFatal ==
    \A c \in Clients :
        /\ Cardinality(Issued(client[c].calls, "connect")) <= 1
        /\ Unresolved(c) =>
              /\ client[c].pc \in {"parse_arguments", "socket", "connect", "exited"}
              /\ Issued(client[c].calls, "send") = {}
              /\ client[c].sent = << >>
              /\ link[c].state = "none" /\ link[c].up = << >>
              /\ Exited(client[c]) => client[c].exit # 0

\* C12 witness: against a listening server, a client with an address
\* argument that cannot be resolved has called connect, which failed, and
\* has exited.
C12_Witness ==
    \E c \in Clients :
        /\ Unresolved(c)
        /\ listening
        /\ Exited(client[c])
        /\ Results(client[c].calls, "connect") = { 0 - 1 }

\* The socket operations of the server in the order of its program.
ServerOrder ==
    << "socket", "setsockopt", "bind", "listen", "accept", "recv", "send" >>

\* The calls of a process other than its closes, in the order issued.
Operations(calls) == SelectSeq(calls, LAMBDA x : x.call # "close")

\* C13: the socket operations the server has issued are the first ones of
\* its program, in program order and each once; every one but the last had
\* succeeded when the next was issued (a send follows a recv that returned
\* at least one byte); and after a call that failed the server issues
\* nothing but closes.
C13_ProgramOrder ==
    LET ops == Operations(server.calls)
    IN  /\ Len(ops) <= Len(ServerOrder)
        /\ \A i \in 1..Len(ops) : ops[i].call = ServerOrder[i]
        /\ \A i \in 1..(Len(ops) - 1) :
              /\ ops[i].ret >= 0
              /\ ops[i].call = "recv" => ops[i].ret > 0
        /\ \A i, j \in DOMAIN server.calls :
              (i < j /\ server.calls[i].ret < 0) => server.calls[j].call = "close"

\* C13 witness: the server went through all seven operations and exited.
C13_Witness ==
    /\ Exited(server)
    /\ Len(Operations(server.calls)) = Len(ServerOrder)

\* The operator of client c typed a line of more than BUFFER_SIZE - 1
\* characters.
TypedLongLine(c) == Len(client[c].stdin.chars) > BUFFER_SIZE - 1

\* The first BUFFER_SIZE - 1 characters of client c's line and a NUL.
Truncated(c) == CString(SubSeq(client[c].stdin.chars, 1, BUFFER_SIZE - 1))

\* C14: a client that has read its operator's line of more than 99
\* characters holds, and passes to send, exactly the first 99 characters
\* and a NUL;
\* it has reported nothing and is still running when it calls send, and
\* after a send that succeeded it goes to its receive.  The server's one
\* recv returns and stores at most 99 bytes, inside its buffer, whatever
\* was sent; when it stored 99 bytes of such a line it reports no error and
\* passes to send nothing but the fixed response.
C14_SilentTruncation ==
    /\ \A c \in Clients :
          (TypedLongLine(c) /\ Printed(client[c].out, "You are sending"))
          => /\ client[c].buffer = Truncated(c)
             /\ \A i \in DOMAIN client[c].sent : client[c].sent[i] = Truncated(c)
             /\ client[c].pc = "send" =>
                   /\ ~Exited(client[c])
                   /\ client[c].out = << "Connected to server at",
                                         "Enter a message to send: ",
                                         "You are sending",
                                         "The length of the string is" >>
             /\ Results(client[c].calls, "send") = { BUFFER_SIZE } =>
                   \/ client[c].pc = "recv"
                   \/ Issued(client[c].calls, "recv") # {}
    /\ Cardinality(Issued(server.calls, "recv")) <= 1
    /\ server.bytes <= BUFFER_SIZE - 1
    /\ Len(server.buffer) \in {0, BUFFER_SIZE}
    /\ Issued(server.calls, "recv") # {} => strlen(server.buffer) <= BUFFER_SIZE - 1
    /\ (server.peer \in Clients /\ server.bytes = BUFFER_SIZE - 1) =>
          /\ ~Printed(server.out, "Error: recv() failed")
          /\ \A i \in DOMAIN server.sent : server.sent[i] = CString(RESPONSE)
          /\ server.pc \in {"send", "cleanup", "exited"}

\* C14 witness: a client's line of 100 characters went out as 100 bytes,
\* the server stored 99 of them and answered, and the client read the
\* response and exited.
C14_Witness ==
    \E c \in Clients :
        /\ TypedLongLine(c)
        /\ server.peer = c
        /\ Results(client[c].calls, "send") = { BUFFER_SIZE }
        /\ Results(server.calls, "recv") = { BUFFER_SIZE - 1 }
        /\ Results(server.calls, "send") = { Len(RESPONSE) + 1 }
        /\ Results(client[c].calls, "recv") = { Len(RESPONSE) + 1 }
        /\ Exited(server) /\ Exited(client[c])

\* C15 as claimed: every index at which a process stores a terminating NUL
\* in a message buffer lies in 0..BUFFER_SIZE - 1: buffer[rc] after the
\* server's recv and after a client's recv, and buffer[strcspn(buffer,
\* "\n")] after a client's fgets, for every value recv returns and every
\* input of the operator.
C15_TerminatorIndexAsClaimed ==
    /\ server.bytes > 0 =>
          /\ server.bytes \in 0..(BUFFER_SIZE - 1)
          /\ Len(server.buffer) = BUFFER_SIZE
    /\ \A c \in Clients :
          /\ client[c].rc > 0 =>
                /\ client[c].rc \in 0..(BUFFER_SIZE - 1)
                /\ Len(client[c].rbuffer) = BUFFER_SIZE
          /\ Printed(client[c].out, "You are sending") =>
                /\ client[c].strip_at \in 0..(BUFFER_SIZE - 1)
                /\ Len(client[c].buffer) <= BUFFER_SIZE

\* No call of the sequence names a descriptor that an earlier call of the
\* sequence closed, and every descriptor a call names was returned by an
\* earlier socket or accept.
NoUseAfterClose(calls) ==
    /\ \A i \in Issued(calls, "close") :
          \A j \in DOMAIN calls : j > i => calls[j].fd # calls[i].fd
    /\ \A j \in DOMAIN calls :
          calls[j].call # "socket" =>
              \E i \in Issued(calls, "socket") \cup Issued(calls, "accept") :
                  i < j /\ calls[i].ret = calls[j].fd

\* C16: in the server and in every client, on every path, no descriptor is
\* closed twice and no send, recv, accept or close (nor any other call) is
\* issued on a descriptor after its close.
C16_NoUseAfterClose ==
    /\ NoUseAfterClose(server.calls)
    /\ \A c \in Clients : NoUseAfterClose(client[c].calls)

\* C16 witness: the server has closed its two descriptors and exited, one
\* client has closed its socket after an exchange, and another has closed
\* its socket on the error path of connect.
C16_Witness ==
    /\ Exited(server)
    /\ Cardinality(Issued(server.calls, "close")) = 2
    /\ \E c, d \in Clients :
          /\ Exited(client[c]) /\ c \in Answered
          /\ Cardinality(Issued(client[c].calls, "close")) = 1
          /\ Exited(client[d])
          /\ Results(client[d].calls, "connect") = { 0 - 1 }
          /\ Cardinality(Issued(client[d].calls, "close")) = 1

\* C17: every client issues at most one send and at most one recv; a recv
\* comes after a send that succeeded; and a client whose send failed
\* issues no recv: it is about to close its socket or has closed it, the
\* close being its next call after the send.
C17_OneSendOneRecv ==
    \A c \in Clients :
        LET calls == client[c].calls
        IN  /\ Cardinality(Issued(calls, "send")) <= 1
            /\ Cardinality(Issued(calls, "recv")) <= 1
            /\ \A j \in Issued(calls, "recv") :
                  \E i \in Issued(calls, "send") : i < j /\ calls[i].ret >= 0
            /\ \A i \in Issued(calls, "send") :
                  calls[i].ret < 0 =>
                      /\ Issued(calls, "recv") = {}
                      /\ client[c].pc \in {"cleanup", "exited"}
                      /\ client[c].pc = "cleanup" => ENABLED ClientCleanup(c)
                      /\ i < Len(calls) =>
                            calls[i + 1] = Call("close", client[c].sd, 0)

\* C17 witness: a client's send failed and the client has closed its
\* socket and exited without a recv, while another send was followed by a
\* recv.
C17_Witness ==
    \E c, d \in Clients :
        /\ Exited(client[c])
        /\ Results(client[c].calls, "send") = { 0 - 1 }
        /\ Issued(client[c].calls, "close") # {}
        /\ \E n \in Results(client[d].calls, "send") : n > 0
        /\ Issued(client[d].calls, "recv") # {}

============================================================================
